---- MODULE Spec2Model ----
(***************************************************************************)
(* Model of diff-utils (dfu-core): the byte-exact file comparator          *)
(* (files.rs), the subtree equality check diff_dirs and the top-level      *)
(* merge iterator TreeDiffIter built by diff_trees (directories.rs).       *)
(*                                                                         *)
(* A directory tree is a root name plus a set of entries; an entry has a   *)
(* path relative to the root (a sequence of names), a file type and, for   *)
(* a regular file, its bytes.  Names are small integers; their integer     *)
(* order stands for the byte-wise order of OsStr names.  A traversal is a  *)
(* sequence of items, each Ok(entry) or Err; which items of a traversal    *)
(* fail, and which file accesses fail, is the environment's choice.        *)
(***************************************************************************)
EXTENDS Integers, Sequences, FiniteSets, TLC

VARIABLES
    dir1, dir2,         \* the two directory arguments (trees)
    depth,              \* diff_trees' depth argument
    walker1, walker2,   \* TreeDiffIter's two Peekable walkers (remaining items)
    out,                \* items returned by TreeDiffIter::next so far
    pulls,              \* number of calls of TreeDiffIter::next so far
    ended,              \* TreeDiffIter::next has returned None
    lists,              \* the two listings the walkers started with
    dw1, dw2,           \* diff_dirs' two local walkers (remaining items)
    din,                \* the traversals diff_dirs started with
    dret,               \* diff_dirs' state: "running" or its return value
    dcmp,               \* number of file_contents_equal calls made by diff_dirs
    stopped,            \* the consumer's loop has left through `break`
    file1, file2,       \* file_contents_equal's two arguments (files)
    fst,                \* file_contents_equal's position: "meta", "open", "read", "done"
    fpos,               \* index of the next byte the loop reads
    fret,               \* file_contents_equal's return value
    fopens,             \* number of File::open calls made
    freads              \* bytes read from each of the two files

\* what file_contents_equal works on
fvars == <<file1, file2, fst, fpos, fret, fopens, freads>>

vars == <<dir1, dir2, depth, walker1, walker2, out, pulls, ended, lists,
          dw1, dw2, din, dret, dcmp, stopped, fvars>>

\* file_contents_equal is not running
FilesIdle ==
    /\ file1 = <<>>
    /\ file2 = <<>>
    /\ fst = "idle"
    /\ fpos = 0
    /\ fret = "none"
    /\ fopens = 0
    /\ freads = <<0, 0>>

(***************************************************************************)
(* Bounds                                                                  *)
(***************************************************************************)
\* most entries below the root of a tree (so also the deepest nesting)
MaxNodes == 2

\* entry names, ordered as integers
Names == {1, 2}

\* contents of regular files in the trees
TreeData == {<<0>>, <<1>>}

\* the depths diff_trees is called with (the command-line tool passes 1)
Depths == {1, 2}

\* longest file given to file_contents_equal on its own
MaxLen == 2

\* byte values
Bytes == {0, 1}

(***************************************************************************)
(* The file system                                                         *)
(***************************************************************************)
RECURSIVE PathsUpTo(_)
PathsUpTo(n) ==
    IF n = 0 THEN {<<>>}
    ELSE LET prev == PathsUpTo(n - 1)
         IN  prev \cup {Append(p, c) : p \in prev, c \in Names}

Parent(p) == SubSeq(p, 1, Len(p) - 1)

IsPrefix(p, q) == Len(p) <= Len(q) /\ SubSeq(q, 1, Len(p)) = p

\* every entry that can occur below a root
EntryUniverse ==
    LET paths == PathsUpTo(MaxNodes) \ {<<>>}
    IN  {[path |-> p, name |-> p[Len(p)], ftype |-> "dir", data |-> <<>>] : p \in paths}
        \cup {[path |-> p, name |-> p[Len(p)], ftype |-> "file", data |-> d] :
                 p \in paths, d \in TreeData}

\* e can be added to the entry set t: its path is new and its parent is the
\* root or a directory of t
CanAdd(t, e) ==
    /\ \A f \in t : f.path # e.path
    /\ \/ Len(e.path) = 1
       \/ \E f \in t : f.path = Parent(e.path) /\ f.ftype = "dir"

RECURSIVE EntrySetsUpTo(_)
EntrySetsUpTo(n) ==
    IF n = 0 THEN {{}}
    ELSE LET prev == EntrySetsUpTo(n - 1)
         IN  prev \cup {x[1] \cup {x[2]} :
                          x \in {y \in prev \X EntryUniverse : CanAdd(y[1], y[2])}}

\* the directories the operations are given: a root directory's own name and
\* the entries below it
Trees == {[rname |-> n, entries |-> t] : n \in Names, t \in EntrySetsUpTo(MaxNodes)}

RootEntry(tree) == [path |-> <<>>, name |-> tree.rname, ftype |-> "dir", data |-> <<>>]

AllEntries(tree) == tree.entries \cup {RootEntry(tree)}

(***************************************************************************)
(* Sorted Directory Lister (WalkDir with sort_by(file_name_cmp))           *)
(***************************************************************************)
\* a comparator that never reports Equal (a name that ties sorts "Less")
file_name_cmp_no_equal(a, b) == IF a.name <= b.name THEN "Less" ELSE "Greater"

\* file_name_cmp: byte-wise comparison of the two entries' file names
file_name_cmp(a, b) ==
    IF a.name < b.name THEN "Less"
    ELSE IF a.name > b.name THEN "Greater"
    ELSE "Equal"

\* p comes before q in a pre-order walk whose siblings are sorted by
\* file_name_cmp: p is a proper prefix of q, or at the first component where
\* they differ p's name sorts first
PathLess(p, q) ==
    \E i \in 1..Len(q) :
        /\ i - 1 <= Len(p)
        /\ \A j \in 1..(i - 1) : p[j] = q[j]
        /\ \/ i = Len(p) + 1
           \/ /\ i <= Len(p)
              /\ p[i] # q[i]
              /\ file_name_cmp([name |-> p[i]], [name |-> q[i]]) = "Less"

NoFault == [kind |-> "ok", at |-> 0]

\* the item a traversal yields for entry e of the tree given as argument `side`
OkItem(side, e) ==
    [tag |-> "Ok", side |-> side, path |-> e.path, name |-> e.name,
     ftype |-> e.ftype, data |-> e.data, io |-> NoFault]

\* a traversal whose siblings come in descending file-name order
WalkDir_descending(side, tree, at, mind, maxd) ==
    LET S == {e \in AllEntries(tree) :
                 /\ IsPrefix(at, e.path)
                 /\ Len(e.path) - Len(at) >= mind
                 /\ Len(e.path) - Len(at) <= maxd}
        Rank(e) == 1 + Cardinality({f \in S : f # e /\ PathLess(e.path, f.path)})
    IN  [i \in 1..Cardinality(S) |-> OkItem(side, CHOOSE e \in S : Rank(e) = i)]

\* the error-free traversal WalkDir::new(at).min_depth(mind).max_depth(maxd)
\* .sort_by(file_name_cmp): the entries at or below `at` whose depth relative
\* to `at` is within mind..maxd, directories before their contents, siblings
\* in file-name order
WalkDir(side, tree, at, mind, maxd) ==
    LET S == {e \in AllEntries(tree) :
                 /\ IsPrefix(at, e.path)
                 /\ Len(e.path) - Len(at) >= mind
                 /\ Len(e.path) - Len(at) <= maxd}
        Rank(e) == 1 + Cardinality({f \in S : f # e /\ PathLess(f.path, e.path)})
    IN  [i \in 1..Cardinality(S) |-> OkItem(side, CHOOSE e \in S : Rank(e) = i)]

\* the item a traversal yields when reading the entry fails
ErrItem(it) == [it EXCEPT !.tag = "Err"]

\* the ways accessing a regular file can fail: its metadata, opening it, or
\* the read of its k-th byte
IoFaults(data) ==
    {[kind |-> "meta", at |-> 0], [kind |-> "open", at |-> 0]}
    \cup {[kind |-> "read", at |-> k] : k \in 1..Len(data)}

\* the listings a walker can yield for the error-free traversal w: any of its
\* entries may be replaced by an error item
Listings(w) ==
    {[i \in 1..Len(w) |-> IF i \in F THEN ErrItem(w[i]) ELSE w[i]] :
        F \in SUBSET (1..Len(w))}

\* the traversals diff_dirs can see for the error-free traversal w, up to its
\* first failure (diff_dirs returns at the first failure it meets): no
\* failure, one entry replaced by an error item, or one regular file whose
\* access fails
Traversals(w) ==
    {w}
    \cup {[w EXCEPT ![k] = ErrItem(w[k])] : k \in 1..Len(w)}
    \cup UNION {{[w EXCEPT ![k].io = f] : f \in IoFaults(w[k].data)} :
                  k \in {j \in 1..Len(w) : w[j].ftype = "file"}}

\* a stream that reads ahead: a failing read is reported one byte early
ReadByte_read_ahead(f, i) ==
    IF f.io.kind = "read" /\ f.io.at \in {i, i + 1} THEN [tag |-> "Err", b |-> 0]
    ELSE IF i > Len(f.data) THEN [tag |-> "None", b |-> 0]
    ELSE [tag |-> "Ok", b |-> f.data[i]]

(***************************************************************************)
(* Byte-Exact File Comparator (files.rs)                                   *)
(***************************************************************************)
\* the i-th call of next() on File::open(f).bytes()
ReadByte(f, i) ==
    IF f.io.kind = "read" /\ f.io.at = i THEN [tag |-> "Err", b |-> 0]
    ELSE IF i > Len(f.data) THEN [tag |-> "None", b |-> 0]
    ELSE [tag |-> "Ok", b |-> f.data[i]]

\* the loop's byte test finding only a smaller byte in the second file
ReadArm_misses_smaller_byte(f1, f2, i) ==
    LET r1 == ReadByte(f1, i)
        r2 == ReadByte(f2, i)
    IN  CASE r1.tag = "Ok" /\ r2.tag = "Ok" ->
                IF r1.b > r2.b THEN "false" ELSE "continue"
          [] r1.tag = "Ok" /\ r2.tag = "None" -> "false"
          [] r1.tag = "None" /\ r2.tag = "Ok" -> "false"
          [] r1.tag = "Err" -> "Err"
          [] r2.tag = "Err" -> "Err"
          [] OTHER -> "true"

\* the i-th iteration of file_contents_equal's loop: the value returned
\* ("true", "false", "Err") or "continue"
ReadArm(f1, f2, i) ==
    LET r1 == ReadByte(f1, i)
        r2 == ReadByte(f2, i)
    IN  CASE r1.tag = "Ok" /\ r2.tag = "Ok" ->
                IF r1.b # r2.b THEN "false" ELSE "continue"
          [] r1.tag = "Ok" /\ r2.tag = "None" -> "false"
          [] r1.tag = "None" /\ r2.tag = "Ok" -> "false"
          [] r1.tag = "Err" -> "Err"
          [] r2.tag = "Err" -> "Err"
          [] OTHER -> "true"

\* the loop of file_contents_equal from its i-th iteration on
RECURSIVE ReadLoop(_, _, _)
ReadLoop(f1, f2, i) ==
    LET r == ReadArm(f1, f2, i)
    IN  IF r = "continue" THEN ReadLoop(f1, f2, i + 1) ELSE r

\* the length test letting files of different lengths through
MetadataCheck_no_short_circuit(f1, f2) ==
    IF f1.io.kind = "meta" \/ f2.io.kind = "meta" THEN "Err"
    ELSE "continue"

\* the length test of file_contents_equal: file1.metadata()?, then
\* file2.metadata()?, then the two lengths compared
MetadataCheck(f1, f2) ==
    IF f1.io.kind = "meta" \/ f2.io.kind = "meta" THEN "Err"
    ELSE IF Len(f1.data) # Len(f2.data) THEN "false"
    ELSE "continue"

\* File::open(file1)? then File::open(file2)?: the outcome and the number of
\* File::open calls made
OpenBoth(f1, f2) ==
    IF f1.io.kind = "open" THEN [ret |-> "Err", opens |-> 1]
    ELSE IF f2.io.kind = "open" THEN [ret |-> "Err", opens |-> 2]
    ELSE [ret |-> "continue", opens |-> 2]

\* the length test inverted: files of equal length are reported different
file_contents_equal_len_inverted(f1, f2) ==
    IF f1.io.kind = "meta" \/ f2.io.kind = "meta" THEN "Err"
    ELSE IF Len(f1.data) = Len(f2.data) THEN "false"
    ELSE IF f1.io.kind = "open" \/ f2.io.kind = "open" THEN "Err"
    ELSE ReadLoop(f1, f2, 1)

\* a failure of file2's metadata taken as length 0 instead of propagated
file_contents_equal_meta2_swallowed(f1, f2) ==
    IF f1.io.kind = "meta" THEN "Err"
    ELSE IF Len(f1.data) # (IF f2.io.kind = "meta" THEN 0 ELSE Len(f2.data))
    THEN "false"
    ELSE IF f1.io.kind = "open" \/ f2.io.kind = "open" THEN "Err"
    ELSE ReadLoop(f1, f2, 1)

\* file_contents_equal(file1, file2): "true", "false" or "Err"
file_contents_equal(f1, f2) ==
    LET m == MetadataCheck(f1, f2)
    IN  IF m # "continue" THEN m
        ELSE IF OpenBoth(f1, f2).ret # "continue" THEN "Err"
        ELSE ReadLoop(f1, f2, 1)

\* the trees and the iterator are not in use
TreesIdle ==
    /\ dir1 = <<>>
    /\ dir2 = <<>>
    /\ depth = 0
    /\ walker1 = <<>>
    /\ walker2 = <<>>
    /\ out = <<>>
    /\ pulls = 0
    /\ ended = FALSE
    /\ lists = <<>>
    /\ stopped = FALSE
    /\ dw1 = <<>>
    /\ dw2 = <<>>
    /\ din = <<>>
    /\ dret = "idle"
    /\ dcmp = 0

(***************************************************************************)
(* file_contents_equal(file1, file2), one statement or loop iteration per  *)
(* step                                                                    *)
(***************************************************************************)
RECURSIVE SeqsUpTo(_)
SeqsUpTo(n) ==
    IF n = 0 THEN {<<>>}
    ELSE LET prev == SeqsUpTo(n - 1)
         IN  prev \cup {Append(d, b) : d \in prev, b \in Bytes}

\* a file: its bytes and the way accessing it fails, if it does
Files ==
    UNION {{[data |-> d, io |-> f] : f \in {NoFault} \cup IoFaults(d)} :
           d \in SeqsUpTo(MaxLen)}

InitFiles ==
    /\ file1 \in Files
    /\ file2 \in Files
    /\ fst = "meta"
    /\ fpos = 0
    /\ fret = "none"
    /\ fopens = 0
    /\ freads = <<0, 0>>
    /\ TreesIdle

\* line 12: the two metadata() calls and the length test
FileMetadata ==
    /\ fst = "meta"
    /\ LET m == MetadataCheck(file1, file2)
       IN  IF m = "continue"
           THEN fst' = "open" /\ fret' = fret
           ELSE fst' = "done" /\ fret' = m
    /\ UNCHANGED <<file1, file2, fpos, fopens, freads>>

\* lines 16-17: the two File::open calls
FileOpen ==
    /\ fst = "open"
    /\ LET o == OpenBoth(file1, file2)
       IN  /\ fopens' = fopens + o.opens
           /\ IF o.ret = "continue"
              THEN fst' = "read" /\ fret' = fret /\ fpos' = 1
              ELSE fst' = "done" /\ fret' = o.ret /\ fpos' = fpos
    /\ UNCHANGED <<file1, file2, freads>>

\* the number of bytes the i-th next() on f's byte stream hands over
BytesGot(f, i) == IF ReadByte(f, i).tag = "Ok" THEN 1 ELSE 0

\* lines 19-46: one iteration of the loop
FileRead ==
    /\ fst = "read"
    /\ LET r == ReadArm(file1, file2, fpos)
       IN  /\ freads' = <<freads[1] + BytesGot(file1, fpos),
                          freads[2] + BytesGot(file2, fpos)>>
           /\ IF r = "continue"
              THEN fst' = "read" /\ fret' = fret /\ fpos' = fpos + 1
              ELSE fst' = "done" /\ fret' = r /\ fpos' = fpos
    /\ UNCHANGED <<file1, file2, fopens>>

NextFiles ==
    /\ FileMetadata \/ FileOpen \/ FileRead
    /\ UNCHANGED <<dir1, dir2, depth, walker1, walker2, out, pulls, ended,
                   lists, dw1, dw2, din, dret, dcmp, stopped>>

SpecFiles == InitFiles /\ [][NextFiles]_vars

(***************************************************************************)
(* Subtree Equality Checker (diff_dirs)                                    *)
(***************************************************************************)
Peek(w) == IF w = <<>> THEN [tag |-> "None"] ELSE Head(w)

\* a loop that drops a walker's error and goes on
DiffDirsArm_skips_errors(w1, w2) ==
    LET p1 == Peek(w1)
        p2 == Peek(w2)
        stay(r, c) == [ret |-> r, w1 |-> w1, w2 |-> w2, cmp |-> c]
    IN  CASE p1.tag = "Ok" /\ p2.tag = "Ok" ->
                IF file_name_cmp(p1, p2) = "Equal"
                THEN IF p1.ftype # p2.ftype THEN stay("NotEqual", 0)
                     ELSE IF p1.ftype = "file"
                     THEN LET eq == file_contents_equal(p1, p2)
                          IN  IF eq = "Err" THEN stay("Err", 1)
                              ELSE IF eq = "false" THEN stay("NotEqual", 1)
                              ELSE [ret |-> "continue", w1 |-> Tail(w1),
                                    w2 |-> Tail(w2), cmp |-> 1]
                     ELSE [ret |-> "continue", w1 |-> Tail(w1),
                           w2 |-> Tail(w2), cmp |-> 0]
                ELSE stay("NotEqual", 0)
          [] p1.tag = "Ok" /\ p2.tag = "None" -> stay("NotEqual", 0)
          [] p1.tag = "None" /\ p2.tag = "Ok" -> stay("NotEqual", 0)
          [] p1.tag = "Err" ->
                [ret |-> "continue", w1 |-> Tail(w1), w2 |-> w2, cmp |-> 0]
          [] p2.tag = "Err" ->
                [ret |-> "continue", w1 |-> w1, w2 |-> Tail(w2), cmp |-> 0]
          [] OTHER -> stay("Equal", 0)

\* a loop that steps over two entries of unequal names and goes on
DiffDirsArm_passes_unequal_names(w1, w2) ==
    LET p1 == Peek(w1)
        p2 == Peek(w2)
        stay(r, c) == [ret |-> r, w1 |-> w1, w2 |-> w2, cmp |-> c]
    IN  CASE p1.tag = "Ok" /\ p2.tag = "Ok" ->
                IF file_name_cmp(p1, p2) = "Equal"
                THEN IF p1.ftype # p2.ftype THEN stay("NotEqual", 0)
                     ELSE IF p1.ftype = "file"
                     THEN LET eq == file_contents_equal(p1, p2)
                          IN  IF eq = "Err" THEN stay("Err", 1)
                              ELSE IF eq = "false" THEN stay("NotEqual", 1)
                              ELSE [ret |-> "continue", w1 |-> Tail(w1),
                                    w2 |-> Tail(w2), cmp |-> 1]
                     ELSE [ret |-> "continue", w1 |-> Tail(w1),
                           w2 |-> Tail(w2), cmp |-> 0]
                ELSE [ret |-> "continue", w1 |-> Tail(w1),
                      w2 |-> Tail(w2), cmp |-> 0]
          [] p1.tag = "Ok" /\ p2.tag = "None" -> stay("NotEqual", 0)
          [] p1.tag = "None" /\ p2.tag = "Ok" -> stay("NotEqual", 0)
          [] p1.tag = "Err" ->
                [ret |-> "Err", w1 |-> Tail(w1), w2 |-> w2, cmp |-> 0]
          [] p2.tag = "Err" ->
                [ret |-> "Err", w1 |-> w1, w2 |-> Tail(w2), cmp |-> 0]
          [] OTHER -> stay("Equal", 0)

\* one iteration of diff_dirs' loop on the walkers w1, w2: ret is the value
\* returned ("Equal", "NotEqual", "Err") or "continue"; w1, w2 are the
\* walkers afterwards; cmp tells whether file_contents_equal was called
DiffDirsArm(w1, w2) ==
    LET p1 == Peek(w1)
        p2 == Peek(w2)
        stay(r, c) == [ret |-> r, w1 |-> w1, w2 |-> w2, cmp |-> c]
    IN  CASE p1.tag = "Ok" /\ p2.tag = "Ok" ->
                IF file_name_cmp(p1, p2) = "Equal"
                THEN IF p1.ftype # p2.ftype THEN stay("NotEqual", 0)
                     ELSE IF p1.ftype = "file"
                     THEN LET eq == file_contents_equal(p1, p2)
                          IN  IF eq = "Err" THEN stay("Err", 1)
                              ELSE IF eq = "false" THEN stay("NotEqual", 1)
                              ELSE [ret |-> "continue", w1 |-> Tail(w1),
                                    w2 |-> Tail(w2), cmp |-> 1]
                     ELSE [ret |-> "continue", w1 |-> Tail(w1),
                           w2 |-> Tail(w2), cmp |-> 0]
                ELSE stay("NotEqual", 0)
          [] p1.tag = "Ok" /\ p2.tag = "None" -> stay("NotEqual", 0)
          [] p1.tag = "None" /\ p2.tag = "Ok" -> stay("NotEqual", 0)
          [] p1.tag = "Err" ->
                [ret |-> "Err", w1 |-> Tail(w1), w2 |-> w2, cmp |-> 0]
          [] p2.tag = "Err" ->
                [ret |-> "Err", w1 |-> w1, w2 |-> Tail(w2), cmp |-> 0]
          [] OTHER -> stay("Equal", 0)

\* diff_dirs run to its return on the traversals w1, w2
RECURSIVE diff_dirs(_, _)
diff_dirs(w1, w2) ==
    LET r == DiffDirsArm(w1, w2)
    IN  IF r.ret = "continue" THEN diff_dirs(r.w1, r.w2) ELSE r.ret

\* diff_dirs' walkers have no depth limit: no path is longer than MaxNodes
NoDepthLimit == MaxNodes

(***************************************************************************)
(* diff_dirs(dir1, dir2), one loop iteration per step                      *)
(***************************************************************************)
\* the first directory is named 1, the second has the same name or another
InitDirs ==
    /\ dir1 \in {t \in Trees : t.rname = 1}
    /\ dir2 \in Trees
    /\ din \in Traversals(WalkDir(1, dir1, <<>>, 0, NoDepthLimit))
               \X Traversals(WalkDir(2, dir2, <<>>, 0, NoDepthLimit))
    /\ dw1 = din[1]
    /\ dw2 = din[2]
    /\ dret = "running"
    /\ dcmp = 0
    /\ depth = 0
    /\ walker1 = <<>>
    /\ walker2 = <<>>
    /\ out = <<>>
    /\ pulls = 0
    /\ ended = FALSE
    /\ lists = <<>>
    /\ stopped = FALSE
    /\ FilesIdle

DiffDirsLoop ==
    /\ dret = "running"
    /\ LET r == DiffDirsArm(dw1, dw2)
       IN  /\ dw1' = r.w1
           /\ dw2' = r.w2
           /\ dret' = IF r.ret = "continue" THEN "running" ELSE r.ret
           /\ dcmp' = dcmp + r.cmp
    /\ UNCHANGED <<dir1, dir2, depth, walker1, walker2, out, pulls, ended,
                   lists, din, stopped, fvars>>

NextDirs == DiffDirsLoop

SpecDirs == InitDirs /\ [][NextDirs]_vars

(***************************************************************************)
(* Tree Diff Merge Iterator (diff_trees, TreeDiffIter::next)               *)
(***************************************************************************)
\* diff_trees(dir1, dir2, depth): the error-free traversals behind the two
\* walkers.  Both are WalkDir::new(dir1): the second argument is never read.
diff_trees(d1, d2, dep) ==
    [walker1 |-> WalkDir(1, d1, <<>>, dep, dep),
     walker2 |-> WalkDir(1, d1, <<>>, dep, dep)]

TreeOf(side) == IF side = 1 THEN dir1 ELSE dir2

\* de.path(): the argument the entry was found under and its path below it
PathOf(it) == [side |-> it.side, path |-> it.path]

\* the values diff_dirs(de1.path(), de2.path()) can return: it walks the two
\* paths afresh, and each walk can fail
DiffDirsResults(de1, de2) ==
    {diff_dirs(t1, t2) :
        t1 \in Traversals(WalkDir(de1.side, TreeOf(de1.side), de1.path, 0, NoDepthLimit)),
        t2 \in Traversals(WalkDir(de2.side, TreeOf(de2.side), de2.path, 0, NoDepthLimit))}

\* the traversal t raised no error and every file access in it succeeds
FaultFree(t) == \A i \in 1..Len(t) : t[i].tag = "Ok" /\ t[i].io.kind = "ok"

\* the runs diff_dirs(de1.path(), de2.path()) can take: the value returned
\* and whether the two walks and every file access in them were free of faults
DiffDirsRuns(de1, de2) ==
    {[ret |-> diff_dirs(t1, t2), clean |-> FaultFree(t1) /\ FaultFree(t2)] :
        t1 \in Traversals(WalkDir(de1.side, TreeOf(de1.side), de1.path, 0, NoDepthLimit)),
        t2 \in Traversals(WalkDir(de2.side, TreeOf(de2.side), de2.path, 0, NoDepthLimit))}

\* walker.next().unwrap().unwrap() returns: the item taken is Some(Ok(_))
UnwrapOk(w) == Peek(w).tag = "Ok"

\* walker.next().unwrap().unwrap_err() returns: the item taken is Some(Err(_))
UnwrapErr(w) == Peek(w).tag = "Err"

\* What one call of next does: the value returned (kind and paths), the
\* walkers afterwards, the diff_dirs call made, if any (call, dd, clean), the
\* walker error handed on, if any (err), and whether an unwrap panicked.
Returned(kind, paths, w1, w2) ==
    [kind |-> kind, paths |-> paths, w1 |-> w1, w2 |-> w2,
     call |-> <<>>, dd |-> "none", clean |-> TRUE, err |-> <<>>,
     panic |-> FALSE]

\* (Some(Ok(de1)), Some(Ok(de2))), Ordering::Equal, diff_dirs returned dd
ArmEqual(w1, w2, dd) ==
    LET call == <<PathOf(Head(w1)), PathOf(Head(w2))>>
    IN  CASE dd = "Equal" ->
                [Returned("Matches", call, Tail(w1), Tail(w2))
                    EXCEPT !.call = call, !.dd = dd,
                           !.panic = ~(UnwrapOk(w1) /\ UnwrapOk(w2))]
          [] dd = "NotEqual" ->
                [Returned("Differs", call, Tail(w1), Tail(w2))
                    EXCEPT !.call = call, !.dd = dd,
                           !.panic = ~(UnwrapOk(w1) /\ UnwrapOk(w2))]
          [] OTHER ->
                [Returned("Err", <<>>, w1, w2)
                    EXCEPT !.call = call, !.dd = dd]

\* (Some(Ok(de1)), Some(Ok(de2))), Ordering::Greater
ArmGreater(w1, w2) ==
    [Returned("Left", <<PathOf(Head(w2))>>, w1, Tail(w2))
        EXCEPT !.panic = ~UnwrapOk(w2)]

\* the Less arm taking the entry from the wrong walker
ArmLess_advances_right(w1, w2) ==
    [Returned("Left", <<PathOf(Head(w2))>>, w1, Tail(w2))
        EXCEPT !.panic = ~UnwrapOk(w2)]

\* (Some(Ok(de1)), Some(Ok(de2))), Ordering::Less
ArmLess(w1, w2) ==
    [Returned("Left", <<PathOf(Head(w1))>>, Tail(w1), w2)
        EXCEPT !.panic = ~UnwrapOk(w1)]

\* (Some(Ok(_de1)), None)
ArmLeftOnly(w1, w2) ==
    [Returned("Left", <<PathOf(Head(w1))>>, Tail(w1), w2)
        EXCEPT !.panic = ~UnwrapOk(w1)]

\* (None, Some(Ok(_de2)))
ArmRightOnly(w1, w2) ==
    [Returned("Left", <<PathOf(Head(w2))>>, w1, Tail(w2))
        EXCEPT !.panic = ~UnwrapOk(w2)]

\* the first error arm handing the error on without taking it
ArmErr1_leaves_pending(w1, w2) ==
    [Returned("Err", <<>>, w1, w2)
        EXCEPT !.err = <<[from |-> 1, path |-> PathOf(Head(w1))]>>]

\* (Some(Err(_e)), _)
ArmErr1(w1, w2) ==
    [Returned("Err", <<>>, Tail(w1), w2)
        EXCEPT !.err = <<[from |-> 1, path |-> PathOf(Head(w1))]>>,
               !.panic = ~UnwrapErr(w1)]

\* the second error arm unwrapping the item as an entry
ArmErr2_unwraps_ok(w1, w2) ==
    [Returned("Err", <<>>, w1, Tail(w2))
        EXCEPT !.err = <<[from |-> 2, path |-> PathOf(Head(w2))]>>,
               !.panic = ~UnwrapOk(w2)]

\* (_, Some(Err(_e)))
ArmErr2(w1, w2) ==
    [Returned("Err", <<>>, w1, Tail(w2))
        EXCEPT !.err = <<[from |-> 2, path |-> PathOf(Head(w2))]>>,
               !.panic = ~UnwrapErr(w2)]

\* (None, None)
ArmNone(w1, w2) == Returned("None", <<>>, w1, w2)

\* the outcomes of TreeDiffIter::next on the walkers w1, w2
NextResults(w1, w2) ==
    LET p1 == Peek(w1)
        p2 == Peek(w2)
    IN  CASE p1.tag = "Ok" /\ p2.tag = "Ok" ->
                LET ord == file_name_cmp(p1, p2)
                IN  CASE ord = "Equal" ->
                            {[ArmEqual(w1, w2, d.ret) EXCEPT !.clean = d.clean] :
                                d \in DiffDirsRuns(p1, p2)}
                      [] ord = "Greater" -> {ArmGreater(w1, w2)}
                      [] OTHER -> {ArmLess(w1, w2)}
          [] p1.tag = "Ok" /\ p2.tag = "None" -> {ArmLeftOnly(w1, w2)}
          [] p1.tag = "None" /\ p2.tag = "Ok" -> {ArmRightOnly(w1, w2)}
          [] p1.tag = "Err" -> {ArmErr1(w1, w2)}
          [] p2.tag = "Err" -> {ArmErr2(w1, w2)}
          [] OTHER -> {ArmNone(w1, w2)}

\* the item of `out` recorded for the outcome r of a call made with the
\* walkers w1, w2: what was returned, the diff_dirs call made, the two
\* pending items the call saw and how far it advanced each walker
Emitted(r, w1, w2) ==
    [kind |-> r.kind, paths |-> r.paths, call |-> r.call, dd |-> r.dd,
     clean |-> r.clean, err |-> r.err, panic |-> r.panic,
     pend |-> <<Peek(w1), Peek(w2)>>,
     adv |-> <<Len(w1) - Len(r.w1), Len(w2) - Len(r.w2)>>]

\* a consumer that keeps pulling makes one call more than the two listings
\* have entries
PullCap == Len(lists[1]) + Len(lists[2]) + 1

InitTrees ==
    /\ dir1 \in {t \in Trees : t.rname = 1}
    /\ dir2 \in {t \in Trees : t.rname = 2}
    /\ depth \in Depths
    /\ LET it == diff_trees(dir1, dir2, depth)
       IN  lists \in Listings(it.walker1) \X Listings(it.walker2)
    /\ walker1 = lists[1]
    /\ walker2 = lists[2]
    /\ out = <<>>
    /\ pulls = 0
    /\ ended = FALSE
    /\ dw1 = <<>>
    /\ dw2 = <<>>
    /\ din = <<>>
    /\ dret = "idle"
    /\ dcmp = 0
    /\ stopped = FALSE
    /\ FilesIdle

\* one call of TreeDiffIter::next by a consumer that keeps pulling
TreeDiffIterNext ==
    /\ ~ended
    /\ pulls < PullCap
    /\ \E r \in NextResults(walker1, walker2) :
          /\ walker1' = r.w1
          /\ walker2' = r.w2
          /\ pulls' = pulls + 1
          /\ IF r.kind = "None"
             THEN ended' = TRUE /\ out' = out
             ELSE ended' = FALSE /\ out' = Append(out, Emitted(r, walker1, walker2))
    /\ UNCHANGED <<dir1, dir2, depth, lists, dw1, dw2, din, dret, dcmp,
                   stopped, fvars>>

NextTrees == TreeDiffIterNext

SpecTrees == InitTrees /\ [][NextTrees]_vars

(***************************************************************************)
(* diff_dirs called on its own or from TreeDiffIter::next                  *)
(***************************************************************************)
InitDirsTrees == InitDirs \/ InitTrees

NextDirsTrees ==
    \/ dret # "idle" /\ DiffDirsLoop
    \/ dret = "idle" /\ TreeDiffIterNext

SpecDirsTrees == InitDirsTrees /\ [][NextDirsTrees]_vars

(***************************************************************************)
(* The loop of the command-line tool (and of the test diff_trees_sample):  *)
(* for res in diff_trees(&path1, &path2, 1) { ... Err(e) => { ...; break } } *)
(***************************************************************************)
\* a loop that goes on after an error
LoopBreaks_never(kind) == FALSE

\* the loop body leaves the loop: the Err(e) arm ends in `break`
LoopBreaks(kind) == kind = "Err"

InitCli == InitTrees /\ depth = 1

\* one iteration of the for loop: one call of next, the item printed, and
\* the loop left on None or on `break`
CliLoop ==
    /\ ~ended
    /\ ~stopped
    /\ \E r \in NextResults(walker1, walker2) :
          /\ walker1' = r.w1
          /\ walker2' = r.w2
          /\ pulls' = pulls + 1
          /\ IF r.kind = "None"
             THEN ended' = TRUE /\ out' = out /\ stopped' = stopped
             ELSE /\ ended' = FALSE
                  /\ out' = Append(out, Emitted(r, walker1, walker2))
                  /\ stopped' = LoopBreaks(r.kind)
    /\ UNCHANGED <<dir1, dir2, depth, lists, dw1, dw2, din, dret, dcmp, fvars>>

NextCli == CliLoop

SpecCli == InitCli /\ [][NextCli]_vars

(***************************************************************************)
(* Properties of the merge iterator (SpecTrees)                            *)
(***************************************************************************)
NameOfPath(p) == p.path[Len(p.path)]

\* the entry names at depth dep below the root of tree
NamesAt(tree, dep) == {e.name : e \in {f \in tree.entries : Len(f.path) = dep}}

\* the names a listing yields
NamesOf(l) == {l[i].name : i \in {j \in 1..Len(l) : l[j].tag = "Ok"}}

ListingsErrorFree ==
    \A k \in 1..2 : \A i \in 1..Len(lists[k]) : lists[k][i].tag = "Ok"

NoErrItems == \A i \in 1..Len(out) : out[i].kind # "Err"

\* the names a listing yields are in strictly ascending order
SortedListing(l) ==
    \A i, j \in 1..Len(l) :
        (i < j /\ l[i].tag = "Ok" /\ l[j].tag = "Ok") => l[i].name < l[j].name

\* the call recorded as e saw a name pending only on the right: the right
\* name sorts before the left one, or the left side is exhausted
RightOnlyPending(e) ==
    /\ e.pend[2].tag = "Ok"
    /\ \/ e.pend[1].tag = "None"
       \/ e.pend[1].tag = "Ok" /\ e.pend[2].name < e.pend[1].name

\* the call recorded as e saw a name pending only on the left
LeftOnlyPending(e) ==
    /\ e.pend[1].tag = "Ok"
    /\ \/ e.pend[2].tag = "None"
       \/ e.pend[2].tag = "Ok" /\ e.pend[1].name < e.pend[2].name

\* the call recorded as e saw two successful pending entries of equal name
EqualNamesPending(e) ==
    /\ e.pend[1].tag = "Ok"
    /\ e.pend[2].tag = "Ok"
    /\ e.pend[1].name = e.pend[2].name

\* C1: over error-free listings, diff_trees driven to exhaustion yields
\* exactly one item per distinct entry name of dir1's and dir2's listings
\* together, the names in strictly ascending order.
C1_OneItemPerNameOfEitherRoot ==
    (ended /\ ListingsErrorFree /\ NoErrItems) =>
        /\ {NameOfPath(out[i].paths[1]) : i \in 1..Len(out)}
               = NamesAt(dir1, depth) \cup NamesAt(dir2, depth)
        /\ \A i, j \in 1..Len(out) :
               i < j => NameOfPath(out[i].paths[1]) < NameOfPath(out[j].paths[1])

\* C2: a call of next that sees a name pending only on the right returns
\* TreeDiff::Right with the right entry's path and advances only the right
\* walker.
C2_RightOnlyEmitsRight ==
    \A i \in 1..Len(out) :
        RightOnlyPending(out[i]) =>
            /\ out[i].kind = "Right"
            /\ out[i].paths = <<PathOf(out[i].pend[2])>>
            /\ out[i].adv = <<0, 1>>

\* C3: a call of next that sees a name pending only on the left returns
\* TreeDiff::Left with the left entry's path, advances the left walker by
\* one item and leaves the right walker as it was.
C3_LeftOnlyEmitsLeft ==
    \A i \in 1..Len(out) :
        LeftOnlyPending(out[i]) =>
            /\ out[i].kind = "Left"
            /\ out[i].paths = <<PathOf(out[i].pend[1])>>
            /\ out[i].adv = <<1, 0>>

\* a call resolved a left-only name while the right walker still had a
\* later name pending
C3_Witness ==
    \E i \in 1..Len(out) :
        /\ LeftOnlyPending(out[i])
        /\ out[i].pend[2].tag = "Ok"
        /\ out[i].kind = "Left"

\* dir1 = {p1/a.txt = "x"}, dir2 = {p1/a.txt = "y"}
C4_ScenarioLeft ==
    {[path |-> <<1>>, name |-> 1, ftype |-> "dir", data |-> <<>>],
     [path |-> <<1, 1>>, name |-> 1, ftype |-> "file", data |-> <<0>>]}

C4_ScenarioRight ==
    {[path |-> <<1>>, name |-> 1, ftype |-> "dir", data |-> <<>>],
     [path |-> <<1, 1>>, name |-> 1, ftype |-> "file", data |-> <<1>>]}

\* C4: on two successful pending entries of equal name, next runs the subtree
\* check on (the left path under dir1, the right path under dir2), returns
\* Matches exactly when the check says Equal and Differs exactly when it says
\* NotEqual, and then advances both walkers by one; dir1 = {p1/a.txt = "x"},
\* dir2 = {p1/a.txt = "y"} at depth 1 yields [Differs(p1, p1)].
C4_EqualNamesRunSubtreeCheck ==
    /\ \A i \in 1..Len(out) :
          EqualNamesPending(out[i]) =>
              /\ out[i].call = <<[side |-> 1, path |-> out[i].pend[1].path],
                                 [side |-> 2, path |-> out[i].pend[2].path]>>
              /\ out[i].kind = "Matches" <=> out[i].dd = "Equal"
              /\ out[i].kind = "Differs" <=> out[i].dd = "NotEqual"
              /\ out[i].dd \in {"Equal", "NotEqual"} => out[i].adv = <<1, 1>>
    /\ ( /\ ended
         /\ ListingsErrorFree
         /\ NoErrItems
         /\ depth = 1
         /\ dir1.entries = C4_ScenarioLeft
         /\ dir2.entries = C4_ScenarioRight )
       => /\ Len(out) = 1
          /\ out[1].kind = "Differs"

\* C5: in a run over two sorted listings, every item returned before the
\* first error item is either a Matches/Differs whose two paths have equal
\* names, or a Left/Right whose path's name is not in the listing of the
\* other walker.
C5_ItemsBeforeFirstError ==
    (SortedListing(lists[1]) /\ SortedListing(lists[2])) =>
        \A i \in 1..Len(out) :
            (\A j \in 1..i : out[j].kind # "Err") =>
                /\ out[i].kind \in {"Matches", "Differs"} =>
                      /\ Len(out[i].paths) = 2
                      /\ NameOfPath(out[i].paths[1]) = NameOfPath(out[i].paths[2])
                /\ out[i].kind \in {"Left", "Right"} =>
                      /\ Len(out[i].paths) = 1
                      /\ out[i].adv \in {<<1, 0>>, <<0, 1>>}
                      /\ NameOfPath(out[i].paths[1]) \notin
                            NamesOf(IF out[i].adv = <<1, 0>> THEN lists[2] ELSE lists[1])

\* two names were matched in a run over sorted listings of two entries each,
\* with no error item before them
C5_Witness ==
    /\ SortedListing(lists[1]) /\ SortedListing(lists[2])
    /\ Len(lists[1]) = 2 /\ Len(lists[2]) = 2
    /\ Len(out) >= 2
    /\ \A j \in 1..2 : out[j].kind = "Matches"

\* C10: every call of next that returns an item consumes a pending entry of
\* one of the walkers, so at most |left listing| + |right listing| items are
\* returned before None.
C10_EveryItemConsumesAnEntry ==
    /\ \A i \in 1..Len(out) : out[i].adv # <<0, 0>>
    /\ Len(out) <= Len(lists[1]) + Len(lists[2])

(***************************************************************************)
(* Properties of diff_dirs (SpecDirs)                                      *)
(***************************************************************************)
HasReturned == dret \in {"Equal", "NotEqual", "Err"}

\* C6: if diff_dirs returns Equal, the two directories have the same
\* descendants: the same relative paths, each with the same file type and,
\* for regular files, the same bytes.
C6_EqualImpliesSameDescendants ==
    dret = "Equal" => dir1.entries = dir2.entries

\* C7: on two directories with identical descendants and no error,
\* diff_dirs returns Equal, whatever the two directories' own names.
C7_SameDescendantsImpliesEqual ==
    (HasReturned /\ dir1.entries = dir2.entries
        /\ FaultFree(din[1]) /\ FaultFree(din[2])) => dret = "Equal"

\* C8: diff_dirs(A, A) returns Equal when no traversal or file read fails.
C8_Reflexive ==
    (HasReturned /\ dir1 = dir2 /\ FaultFree(din[1]) /\ FaultFree(din[2]))
        => dret = "Equal"

\* diff_dirs(A, A) has returned for an A holding a directory and a file
C8_Witness ==
    /\ dret = "Equal"
    /\ dir1 = dir2
    /\ FaultFree(din[1]) /\ FaultFree(din[2])
    /\ \E e \in dir1.entries : e.ftype = "file"
    /\ \E e \in dir1.entries : e.ftype = "dir"

\* C9: diff_dirs(A, B) and diff_dirs(B, A), run on the same traversals and
\* file accesses, both return Equal, both NotEqual or both an error.
C9_Symmetric ==
    HasReturned => diff_dirs(din[2], din[1]) = dret

\* an error met on the second traversal only, after a first matching pair
C9_Witness ==
    /\ dret = "Err"
    /\ FaultFree(din[1])
    /\ ~FaultFree(din[2])
    /\ Len(dw1) < Len(din[1])

(***************************************************************************)
(* Claims about file_contents_equal                                        *)
(***************************************************************************)
\* file_contents_equal has returned
FileReturned == fst = "done"

\* the two files have the same length and the same byte at every position
SameContents(f1, f2) ==
    /\ Len(f1.data) = Len(f2.data)
    /\ \A i \in 1..Len(f1.data) : f1.data[i] = f2.data[i]

\* C11: a call of file_contents_equal that returns without an I/O error
\* returns true exactly when the two files have the same length and the same
\* byte at every position, and so returns true for a file and itself.
C11_TrueIffSameContents ==
    (FileReturned /\ fret # "Err") =>
        /\ (fret = "true") <=> SameContents(file1, file2)
        /\ file1 = file2 => fret = "true"

\* a file of two bytes or more compared with itself to the end
C11_Witness ==
    /\ FileReturned
    /\ fret = "true"
    /\ file1 = file2
    /\ Len(file1.data) >= 2
    /\ freads = <<Len(file1.data), Len(file2.data)>>

\* both files' metadata can be read
MetadataReadable == file1.io.kind # "meta" /\ file2.io.kind # "meta"

\* C12: when the sizes the metadata reports differ, file_contents_equal
\* returns Ok(false) having opened neither file and read no byte.
C12_SizeMismatchDecidesUnopened ==
    (FileReturned /\ MetadataReadable /\ Len(file1.data) # Len(file2.data)) =>
        /\ fret = "false"
        /\ fopens = 0
        /\ freads = <<0, 0>>

\* files of different sizes, one of which could not have been opened
C12_Witness ==
    /\ FileReturned
    /\ fret = "false"
    /\ Len(file1.data) # Len(file2.data)
    /\ file1.io.kind = "open" \/ file2.io.kind = "open"
    /\ fopens = 0

\* the positions at which two files of equal size differ
DiffPositions(f1, f2) ==
    {i \in 1..Len(f1.data) : f1.data[i] # f2.data[i]}

\* the first of them
FirstDiff(f1, f2) ==
    CHOOSE i \in DiffPositions(f1, f2) :
        \A j \in DiffPositions(f1, f2) : i <= j

\* accessing f fails before its k-th byte has been handed over
FailsUpTo(f, k) ==
    \/ f.io.kind \in {"meta", "open"}
    \/ f.io.kind = "read" /\ f.io.at <= k

\* C19: for files of equal size that first differ at their k-th byte (k
\* counted from 1), both accessible up to that byte, file_contents_equal
\* returns Ok(false) having read exactly k bytes of each, whatever bytes or
\* read errors lie behind the k-th byte.
C19_StopsAtFirstDifference ==
    (FileReturned
        /\ Len(file1.data) = Len(file2.data)
        /\ DiffPositions(file1, file2) # {}
        /\ ~FailsUpTo(file1, FirstDiff(file1, file2))
        /\ ~FailsUpTo(file2, FirstDiff(file1, file2))) =>
        /\ fret = "false"
        /\ freads = <<FirstDiff(file1, file2), FirstDiff(file1, file2)>>
        /\ fpos = FirstDiff(file1, file2)

\* a first differing byte followed by a byte whose read would have failed
C19_Witness ==
    /\ FileReturned
    /\ fret = "false"
    /\ Len(file1.data) = Len(file2.data)
    /\ DiffPositions(file1, file2) # {}
    /\ FirstDiff(file1, file2) < Len(file1.data)
    /\ file1.io.kind = "read" /\ file1.io.at > FirstDiff(file1, file2)
    /\ freads = <<FirstDiff(file1, file2), FirstDiff(file1, file2)>>

(***************************************************************************)
(* Further properties of the iterator (SpecTrees)                          *)
(***************************************************************************)
\* the top-level merge of two trees with the same content, in which no
\* listing and no subtree check met a fault
IdenticalErrorFree ==
    /\ depth = 1
    /\ dir1.entries = dir2.entries
    /\ ListingsErrorFree
    /\ \A i \in 1..Len(out) : out[i].clean

\* C13: the top-level merge of two identical, error-free trees emits only
\* Matches items, in strictly ascending name order, and by the time it ends
\* one for each child of the root.
C13_IdenticalTreesAllMatch ==
    IdenticalErrorFree =>
        /\ \A i \in 1..Len(out) : out[i].kind = "Matches"
        /\ \A i, j \in 1..Len(out) :
              i < j => NameOfPath(out[i].paths[1]) < NameOfPath(out[j].paths[1])
        /\ ended =>
              /\ {NameOfPath(out[i].paths[1]) : i \in 1..Len(out)} = NamesAt(dir2, 1)
              /\ Len(out) = Cardinality(NamesAt(dir2, 1))

\* two identical trees of two children each merged to the end
C13_Witness ==
    /\ IdenticalErrorFree
    /\ ended
    /\ Len(out) = 2
    /\ Cardinality(NamesAt(dir1, 1)) = 2

(***************************************************************************)
(* Properties of the consumer's loop (SpecCli)                             *)
(***************************************************************************)
\* the name at which the call recorded as the error item e failed
FailureName(e) ==
    IF e.err # <<>> THEN NameOfPath(e.err[1].path) ELSE NameOfPath(e.call[1])

\* C14: the loop stops at the first error item and makes no call of next
\* after it: what it has printed is a run of classifications, for names
\* before the point of failure, followed by at most one error, which is last.
C14_LoopStopsAtFirstError ==
    /\ \A i \in 1..Len(out) : out[i].kind = "Err" => i = Len(out)
    /\ stopped <=> (out # <<>> /\ out[Len(out)].kind = "Err")
    /\ stopped => (pulls = Len(out) /\ ~ended)
    /\ stopped =>
          \A i \in 1..(Len(out) - 1) :
              NameOfPath(out[i].paths[1]) < FailureName(out[Len(out)])

\* the loop left on an error after it had printed a classification, with
\* entries still unread
C14_Witness ==
    /\ stopped
    /\ Len(out) = 2
    /\ out[1].kind # "Err"
    /\ walker1 # <<>> \/ walker2 # <<>>

\* the positions of `out` holding an error of walker k
ErrPositions(k) ==
    {i \in 1..Len(out) : out[i].err # <<>> /\ out[i].err[1].from = k}

\* the errors of walker k handed on so far, in the order they were returned
RECURSIVE ErrsEmitted(_, _)
ErrsEmitted(k, n) ==
    IF n = 0 THEN <<>>
    ELSE IF n \in ErrPositions(k)
         THEN Append(ErrsEmitted(k, n - 1), out[n].err[1].path)
         ELSE ErrsEmitted(k, n - 1)

\* the errors among the first n items of the listing l
RECURSIVE ErrsListed(_, _)
ErrsListed(l, n) ==
    IF n = 0 THEN <<>>
    ELSE IF l[n].tag = "Err"
         THEN Append(ErrsListed(l, n - 1), PathOf(l[n]))
         ELSE ErrsListed(l, n - 1)

\* C15: a call of next that finds a listing error pending returns exactly
\* that error, takes one item from the erroring walker only and leaves the
\* other walker's pending item in place; with errors pending on both sides
\* the left one is returned and the right one is still pending at the next
\* call; every listing error taken from a walker has been returned once.
C15_ListingErrorsEmittedOnce ==
    /\ \A i \in 1..Len(out) :
          /\ out[i].pend[1].tag = "Err" =>
                /\ out[i].kind = "Err"
                /\ out[i].err = <<[from |-> 1, path |-> PathOf(out[i].pend[1])]>>
                /\ out[i].adv = <<1, 0>>
                /\ i < Len(out) => out[i + 1].pend[2] = out[i].pend[2]
          /\ (out[i].pend[1].tag # "Err" /\ out[i].pend[2].tag = "Err") =>
                /\ out[i].kind = "Err"
                /\ out[i].err = <<[from |-> 2, path |-> PathOf(out[i].pend[2])]>>
                /\ out[i].adv = <<0, 1>>
                /\ i < Len(out) => out[i + 1].pend[1] = out[i].pend[1]
    /\ ErrsEmitted(1, Len(out)) = ErrsListed(lists[1], Len(lists[1]) - Len(walker1))
    /\ ErrsEmitted(2, Len(out)) = ErrsListed(lists[2], Len(lists[2]) - Len(walker2))

\* errors pending on both sides: the left one returned, then the right one
C15_Witness ==
    \E i \in 1..(Len(out) - 1) :
        /\ out[i].pend[1].tag = "Err"
        /\ out[i].pend[2].tag = "Err"
        /\ out[i].err[1].from = 1
        /\ out[i + 1].err # <<>>
        /\ out[i + 1].err[1].from = 2
        /\ out[i + 1].pend[1].tag = "Ok"

(***************************************************************************)
(* Errors met by diff_dirs (SpecDirsTrees)                                 *)
(***************************************************************************)
\* the k-th item of the traversal t, or None behind its end
ItemAt(t, k) == IF k <= Len(t) THEN t[k] ELSE [tag |-> "None"]

\* the k-th items of the two traversals are entries of the same name and
\* type, and, if regular files, of contents the comparator finds equal
MatchAt(t1, t2, k) ==
    /\ ItemAt(t1, k).tag = "Ok"
    /\ ItemAt(t2, k).tag = "Ok"
    /\ t1[k].name = t2[k].name
    /\ t1[k].ftype = t2[k].ftype
    /\ t1[k].ftype = "file" => file_contents_equal(t1[k], t2[k]) = "true"

\* the first position that is not such a match, or that lies behind the end
\* of both traversals
FirstDecisive(t1, t2) ==
    CHOOSE k \in 1..(Len(t1) + Len(t2) + 1) :
        /\ ~MatchAt(t1, t2, k)
        /\ \A j \in 1..(k - 1) : MatchAt(t1, t2, j)

\* at position k a lister's item is an error, or the comparator fails on two
\* regular files of the same name
ErrorAt(t1, t2, k) ==
    \/ ItemAt(t1, k).tag = "Err"
    \/ ItemAt(t2, k).tag = "Err"
    \/ /\ ItemAt(t1, k).tag = "Ok"
       /\ ItemAt(t2, k).tag = "Ok"
       /\ t1[k].name = t2[k].name
       /\ t1[k].ftype = "file"
       /\ t2[k].ftype = "file"
       /\ file_contents_equal(t1[k], t2[k]) = "Err"

\* C16: if, at the first position diff_dirs reaches after matching entries
\* only, a lister's item is an error or the comparator fails on a pair of
\* regular files of the same name, diff_dirs returns an error; and an error
\* returned by diff_dirs to next is returned by next as an error item.
C16_ErrorsFailTheCheck ==
    /\ (HasReturned /\ ErrorAt(din[1], din[2], FirstDecisive(din[1], din[2])))
          => dret = "Err"
    /\ \A i \in 1..Len(out) : out[i].dd = "Err" => out[i].kind = "Err"

\* next has returned the error of a subtree check, and that check fails on
\* walks that match at a first position and meet an error at a later one
C16_Witness ==
    \E i \in 1..Len(out) :
        /\ out[i].dd = "Err"
        /\ out[i].kind = "Err"
        /\ \E t1 \in Traversals(WalkDir(out[i].call[1].side,
                      TreeOf(out[i].call[1].side), out[i].call[1].path, 0, NoDepthLimit)),
              t2 \in Traversals(WalkDir(out[i].call[2].side,
                      TreeOf(out[i].call[2].side), out[i].call[2].path, 0, NoDepthLimit)) :
              /\ FirstDecisive(t1, t2) > 1
              /\ ErrorAt(t1, t2, FirstDecisive(t1, t2))
              /\ diff_dirs(t1, t2) = "Err"

\* C17: over any sequence of calls of next, diff_dirs is called at most once
\* for a pair of entries whose names match: no two calls of next run the
\* subtree check on the same pair of paths.
C17_SubtreeCheckOncePerPair ==
    \A i, j \in 1..Len(out) :
        (i < j /\ out[i].call # <<>>) => out[i].call # out[j].call

(***************************************************************************)
(* Where diff_dirs stops (SpecDirs)                                        *)
(***************************************************************************)
\* at position k the two traversals disagree: names unequal, one side
\* exhausted, types differ, or the contents of two regular files differ
DisagreeAt(t1, t2, k) ==
    \/ /\ ItemAt(t1, k).tag = "Ok"
       /\ ItemAt(t2, k).tag = "Ok"
       /\ \/ t1[k].name # t2[k].name
          \/ t1[k].ftype # t2[k].ftype
          \/ /\ t1[k].ftype = "file"
             /\ file_contents_equal(t1[k], t2[k]) = "false"
    \/ ItemAt(t1, k).tag = "Ok" /\ ItemAt(t2, k).tag = "None"
    \/ ItemAt(t1, k).tag = "None" /\ ItemAt(t2, k).tag = "Ok"

\* the positions up to k at which the comparator is given two regular files
FilePairsUpTo(t1, t2, k) ==
    {j \in 1..k :
        /\ ItemAt(t1, j).tag = "Ok"
        /\ ItemAt(t2, j).tag = "Ok"
        /\ t1[j].name = t2[j].name
        /\ t1[j].ftype = "file"
        /\ t2[j].ftype = "file"}

\* the traversals that agree with t on its first k items: t cut short
\* behind them, or with any of its later items failing
SamePrefix(t, k) ==
    {SubSeq(t, 1, n) : n \in {m \in 0..Len(t) : m >= k \/ m = Len(t)}}
    \cup {[i \in 1..Len(t) |-> IF i \in F THEN ErrItem(t[i]) ELSE t[i]] :
            F \in SUBSET {i \in 1..Len(t) : i > k}}

\* C18: where the two traversals first disagree, after matching entries
\* only, diff_dirs returns NotEqual: it has taken no entry behind that
\* position from either lister, has run the comparator on no later pair, and
\* returns NotEqual whatever follows that position, errors included.
C18_DecidesAtFirstDisagreement ==
    LET k == FirstDecisive(din[1], din[2])
    IN  (HasReturned /\ DisagreeAt(din[1], din[2], k)) =>
            /\ dret = "NotEqual"
            /\ Len(din[1]) - Len(dw1) <= k
            /\ Len(din[2]) - Len(dw2) <= k
            /\ dcmp = Cardinality(FilePairsUpTo(din[1], din[2], k))
            /\ \A t1 \in SamePrefix(din[1], k), t2 \in SamePrefix(din[2], k) :
                  diff_dirs(t1, t2) = "NotEqual"

\* two files of the same name and different contents met after a matching
\* pair, with an entry behind them that cannot be listed
C18_Witness ==
    LET k == FirstDecisive(din[1], din[2])
    IN  /\ dret = "NotEqual"
        /\ k > 1
        /\ DisagreeAt(din[1], din[2], k)
        /\ ItemAt(din[1], k).tag = "Ok"
        /\ ItemAt(din[2], k).tag = "Ok"
        /\ din[1][k].ftype = "file"
        /\ din[2][k].ftype = "file"
        /\ din[1][k].name = din[2][k].name
        /\ \E i \in (k + 1)..Len(din[1]) : din[1][i].tag = "Err"

(***************************************************************************)
(* Panics (SpecTrees)                                                      *)
(***************************************************************************)
\* the tags of the two items pending at the call recorded as e
PendTags(e) == <<e.pend[1].tag, e.pend[2].tag>>

\* C20: no call of next panics: whatever the two pending items are, every
\* unwrap().unwrap() takes a Some(Ok(_)) and every unwrap().unwrap_err() a
\* Some(Err(_)), and the call returns an item.
C20_NextNeverPanics ==
    \A i \in 1..Len(out) :
        /\ ~out[i].panic
        /\ out[i].kind \in {"Left", "Right", "Matches", "Differs", "Err"}
        /\ out[i].adv[1] = 1 => out[i].pend[1].tag \in {"Ok", "Err"}
        /\ out[i].adv[2] = 1 => out[i].pend[2].tag \in {"Ok", "Err"}

\* calls made with two entries pending, with two errors pending, and with an
\* error pending behind an exhausted left side
C20_Witness ==
    /\ \E i \in 1..Len(out) : PendTags(out[i]) = <<"Ok", "Ok">>
    /\ \E i \in 1..Len(out) : PendTags(out[i]) = <<"Err", "Err">>
    /\ \E i \in 1..Len(out) : PendTags(out[i]) = <<"None", "Err">>

====
